---- MODULE Spec2Model ----
(***************************************************************************)
(* potter-potter: a token factory with a whitelist transfer hook.          *)
(*                                                                         *)
(* The program's persisted accounts (TokenFactory, TokenData, Whitelist,   *)
(* the ExtraAccountMetaList record) and the ledger engine's accounts it    *)
(* drives (mints, holding accounts) are the state.  Every instruction is   *)
(* one action: the account constraints of its Accounts struct, then its    *)
(* handler.  The host applies an instruction atomically, so an instruction *)
(* that returns an error leaves every account as it was; only `last`, the  *)
(* outcome reported to the caller, records it.                             *)
(***************************************************************************)
EXTENDS Integers, Sequences, FiniteSets, TLC

VARIABLES
    factory,      \* wallet -> TokenFactory account, or NoAccount
    token_data,   \* PDA("token", authority, token_count) -> TokenData account
    whitelist,    \* PDA("whitelist", authority, token_count) -> Whitelist account
    mint_acct,    \* mint key -> the ledger engine's mint account
    balance,      \* mint key -> wallet -> raw units held by the wallet's holding account
    meta_list,    \* mint key -> the persisted extra-account recipe, or NoAccount
    hist,         \* history: per TokenData, initial supply + amounts minted - amounts burned
    last          \* the last instruction and the result it returned, with what
                  \* the caller passed to it as far as the properties read it

vars == <<factory, token_data, whitelist, mint_acct, balance, meta_list, hist, last>>

program_state == <<factory, token_data, whitelist, meta_list>>
ledger_state  == <<mint_acct, balance>>

(***************************************************************************)
(* Bounds of the model.                                                    *)
(***************************************************************************)
\* A factory's token_count stays below it.
MaxTokenCount == 2
\* Mint keypairs at hand: no more assets than these can be created.
MaxMints == 2
\* Largest amount argument tried, in human units.
MaxAmount == 3
\* The unsigned word of the amounts (u64 in the program), narrowed so that
\* amount * 10^decimals overflows within MaxAmount.
MaxU64 == 2100000000
\* Longest address list passed to add_to_whitelist and remove_from_whitelist.
MaxListLen == 2

(***************************************************************************)
(* Program constants.                                                      *)
(***************************************************************************)
MAX_NAME_LEN == 32
MAX_SYMBOL_LEN == 10
MAX_URI_LEN == 200
DECIMALS == 9
WHITELIST_INIT_SLOTS == 10
WHITELIST_REALLOC_SLOTS == 10
PUBKEY_BYTES == 32
DISCRIMINATOR_BYTES == 8
VEC_LEN_BYTES == 4

\* Wallet public keys: authorities, holders, whitelisted identities.
Keys == {"A", "B", "C"}
\* Keys of freshly generated mint keypairs.
MintKeys == 1 .. MaxMints
TokenCounts == 0 .. (MaxTokenCount - 1)
Amounts == 0 .. MaxAmount

OK == "Ok"
NoAccount == [kind |-> "none"]

(***************************************************************************)
(* Public keys and program-derived addresses.  A derived address is the    *)
(* tuple of its seeds: two derivations agree exactly when their seeds do.  *)
(***************************************************************************)
WalletKey(k) == [tag |-> "wallet", owner |-> k, idx |-> 0]
MintKey(m) == [tag |-> "mint", owner |-> "", idx |-> m]
\* A wallet's holding account of a mint.
TokenAccountKey(k, m) == [tag |-> "token_account", owner |-> k, idx |-> m]
NoKey == [tag |-> "none", owner |-> "", idx |-> 0]
\* token_count.to_le_bytes(): the eight bytes of a u64.
U64Bytes(n) == [src |-> "u64", key |-> NoKey, val |-> n]
\* The first `length` bytes of a public key, as they lie in account data.  A
\* key is the public key of a generated keypair or a hash: its leading bytes
\* are no counter's little-endian bytes.
KeyPrefix(key, length) == [src |-> "key_prefix", key |-> key, val |-> length]

Derive(tag, key, bytes) == <<tag, key, bytes>>

TokenAddr(authority, token_count) ==
    Derive("token", WalletKey(authority), U64Bytes(token_count))
WhitelistAddr(authority, token_count) ==
    Derive("whitelist", WalletKey(authority), U64Bytes(token_count))
MintAuthorityPda(authority) == <<"mint_authority", WalletKey(authority)>>

TokenAddrs == {TokenAddr(k, n) : k \in Keys, n \in TokenCounts}
WhitelistAddrs == {WhitelistAddr(k, n) : k \in Keys, n \in TokenCounts}

\* The Whitelist account at an address, NoAccount where none was initialised.
WhitelistAt(addr) == IF addr \in DOMAIN whitelist THEN whitelist[addr] ELSE NoAccount

(***************************************************************************)
(* u64 arithmetic.                                                         *)
(***************************************************************************)
RECURSIVE Pow10(_)
Pow10(d) == IF d = 0 THEN 1 ELSE 10 * Pow10(d - 1)

\* checked_mul(a, b) is None
MulOverflows(a, b) == b # 0 /\ a > MaxU64 \div b
\* checked_add(a, b) is None
AddOverflows(a, b) == a > MaxU64 - b
\* checked_sub(a, b) is None
SubUnderflows(a, b) == a < b

\* Bytes a Whitelist account of n addresses serialises to.
WhitelistBytes(n) == DISCRIMINATOR_BYTES + VEC_LEN_BYTES + (PUBKEY_BYTES * n)

Contains(s, x) == \E i \in 1 .. Len(s) : s[i] = x

Init ==
    /\ factory = [k \in Keys |-> NoAccount]
    /\ token_data = [t \in TokenAddrs |-> NoAccount]
    /\ whitelist = [w \in WhitelistAddrs |-> NoAccount]
    /\ mint_acct = [m \in MintKeys |-> NoAccount]
    /\ balance = [m \in MintKeys |-> [k \in Keys |-> 0]]
    /\ meta_list = [m \in MintKeys |-> NoAccount]
    /\ hist = [t \in TokenAddrs |-> 0]
    /\ last = [op |-> "init", err |-> OK, by |-> "none"]

(***************************************************************************)
(* create_factory                                                          *)
(***************************************************************************)
\* An init_if_needed: the account is initialised again when it exists.
CreateFactoryErrReinit(authority) == OK

\* CreateFactoryCTX: `init` of the factory PDA fails when the account exists.
CreateFactoryErr(authority) ==
    IF factory[authority] # NoAccount THEN "AccountAlreadyInUse" ELSE OK

CreateFactory(authority) ==
    LET err == CreateFactoryErr(authority) IN
    /\ last' = [op |-> "create_factory", err |-> err, by |-> "none"]
    /\ IF err = OK
       THEN factory' = [factory EXCEPT ![authority] =
                           [authority |-> authority, token_count |-> 0]]
       ELSE UNCHANGED factory
    /\ UNCHANGED <<token_data, whitelist, mint_acct, balance, meta_list, hist>>

(***************************************************************************)
(* create_token                                                            *)
(***************************************************************************)
\* A handler that forgets the increment.
NextTokenCountStuck(token_count) == token_count

\* factory.token_count = token_count.checked_add(1).unwrap()
NextTokenCount(token_count) == token_count + 1

\* A Whitelist account that starts without the default address.
InitialWhitelistEmpty(default_address) == <<>>

\* A seed list that holds the default address twice.
InitialWhitelistTwice(default_address) == <<default_address, default_address>>

\* Whitelist { addresses: vec![default_address] }
InitialWhitelist(default_address) == <<default_address>>

\* A handler without the length check of the uri.
CreateTokenErrUriUnchecked(authority, m, total_supply, name_len, symbol_len, uri_len, ext) ==
    IF factory[authority] = NoAccount THEN "AccountNotInitialized"
    ELSE IF factory[authority].authority # authority THEN "ConstraintHasOne"
    ELSE IF token_data[TokenAddr(authority, factory[authority].token_count)] # NoAccount
        THEN "AccountAlreadyInUse"
    ELSE IF whitelist[WhitelistAddr(authority, factory[authority].token_count)] # NoAccount
        THEN "AccountAlreadyInUse"
    ELSE IF mint_acct[m] # NoAccount THEN "AccountAlreadyInUse"
    ELSE IF name_len > MAX_NAME_LEN THEN "NameTooLong"
    ELSE IF symbol_len > MAX_SYMBOL_LEN THEN "SymbolTooLong"
    ELSE IF ~(total_supply > 0) THEN "InvalidAmount"
    ELSE IF AddOverflows(factory[authority].token_count, 1) THEN "ProgramFailedToComplete"
    ELSE IF ext = "ata_fails" THEN "LedgerError"
    ELSE IF ext = "metadata_fails" THEN "MetadataError"
    ELSE IF MulOverflows(total_supply, Pow10(DECIMALS)) THEN "InvalidAmount"
    ELSE OK

\* CreateTokenCTX, then the handler up to its first error.  `ext` is the answer
\* of the collaborators called on the way: the associated-token program and
\* the metadata registrar.
CreateTokenErr(authority, m, total_supply, name_len, symbol_len, uri_len, ext) ==
    IF factory[authority] = NoAccount THEN "AccountNotInitialized"
    ELSE IF factory[authority].authority # authority THEN "ConstraintHasOne"
    ELSE IF token_data[TokenAddr(authority, factory[authority].token_count)] # NoAccount
        THEN "AccountAlreadyInUse"
    ELSE IF whitelist[WhitelistAddr(authority, factory[authority].token_count)] # NoAccount
        THEN "AccountAlreadyInUse"
    ELSE IF mint_acct[m] # NoAccount THEN "AccountAlreadyInUse"
    ELSE IF name_len > MAX_NAME_LEN THEN "NameTooLong"
    ELSE IF symbol_len > MAX_SYMBOL_LEN THEN "SymbolTooLong"
    ELSE IF uri_len > MAX_URI_LEN THEN "UriTooLong"
    ELSE IF ~(total_supply > 0) THEN "InvalidAmount"
    ELSE IF AddOverflows(factory[authority].token_count, 1) THEN "ProgramFailedToComplete"
    ELSE IF ext = "ata_fails" THEN "LedgerError"
    ELSE IF ext = "metadata_fails" THEN "MetadataError"
    ELSE IF MulOverflows(total_supply, Pow10(DECIMALS)) THEN "InvalidAmount"
    ELSE OK

CreateToken(authority, m, total_supply, lens, default_address, ext) ==
    LET name_len == lens[1]
        symbol_len == lens[2]
        uri_len == lens[3]
        err == CreateTokenErr(authority, m, total_supply, name_len, symbol_len, uri_len, ext)
        token_count == factory[authority].token_count
        td == TokenAddr(authority, token_count)
        wl == WhitelistAddr(authority, token_count)
        raw_supply == total_supply * Pow10(DECIMALS)
    IN
    /\ factory[authority] # NoAccount => factory[authority].token_count < MaxTokenCount
    /\ last' = [op |-> "create_token", err |-> err, by |-> "none",
                to_listed |-> Contains(InitialWhitelist(default_address), authority)]
    /\ IF err = OK
       THEN /\ token_data' = [token_data EXCEPT ![td] =
                   [mint |-> m,
                    authority |-> factory[authority].authority,
                    total_supply |-> total_supply,
                    decimals |-> DECIMALS,
                    is_paused |-> FALSE,
                    is_minting_paused |-> FALSE,
                    name_len |-> name_len,
                    symbol_len |-> symbol_len,
                    uri_len |-> uri_len,
                    whitelist |-> wl]]
            /\ whitelist' = [whitelist EXCEPT ![wl] =
                   [addresses |-> InitialWhitelist(default_address),
                    space |-> WhitelistBytes(WHITELIST_INIT_SLOTS)]]
            /\ factory' = [factory EXCEPT ![authority].token_count =
                   NextTokenCount(token_count)]
            /\ mint_acct' = [mint_acct EXCEPT ![m] =
                   [supply |-> raw_supply,
                    decimals |-> DECIMALS,
                    mint_authority |-> MintAuthorityPda(authority),
                    hook_program |-> "potter_potter"]]
            /\ balance' = [balance EXCEPT ![m][authority] = raw_supply]
            /\ hist' = [hist EXCEPT ![td] = total_supply]
            /\ UNCHANGED meta_list
       ELSE UNCHANGED <<factory, token_data, whitelist, mint_acct, balance, meta_list, hist>>

\* Lengths of name, symbol and uri: all at their limits, or one beyond its limit.
MetadataLens == {<<MAX_NAME_LEN, MAX_SYMBOL_LEN, MAX_URI_LEN>>,
                 <<MAX_NAME_LEN + 1, MAX_SYMBOL_LEN, MAX_URI_LEN>>,
                 <<MAX_NAME_LEN, MAX_SYMBOL_LEN + 1, MAX_URI_LEN>>,
                 <<MAX_NAME_LEN, MAX_SYMBOL_LEN, MAX_URI_LEN + 1>>}
Collaborators == {"ok", "ata_fails", "metadata_fails"}

(***************************************************************************)
(* The constraints shared by the authority-gated instructions:             *)
(*   seeds = [b"token", authority.key(), token_count.to_le_bytes()],       *)
(*   has_one = authority                                                   *)
(* on the TokenData account `td` the caller passes.                        *)
(***************************************************************************)
TokenDataConstraintErr(caller, token_count, td) ==
    IF td # TokenAddr(caller, token_count) THEN "ConstraintSeeds"
    ELSE IF token_data[td].authority # caller THEN "ConstraintHasOne"
    ELSE OK

\* Who signs an instruction addressed to the TokenData account `td`: the
\* authority the account records when the instruction arrives, or another wallet.
Signer(caller, td) ==
    IF token_data[td] = NoAccount THEN "none"
    ELSE IF token_data[td].authority = caller THEN "authority"
    ELSE "other"

\* The TokenData account of a mint.
AssetOfMint(m) ==
    CHOOSE t \in TokenAddrs : token_data[t] # NoAccount /\ token_data[t].mint = m

\* Whether a wallet is in the whitelist linked to the mint's TokenData.
Whitelisted(m, k) ==
    /\ mint_acct[m] # NoAccount
    /\ Contains(whitelist[token_data[AssetOfMint(m)].whitelist].addresses, k)

(***************************************************************************)
(* add_to_whitelist                                                        *)
(***************************************************************************)
\* A push that skips the containment check.
PushAlways(addresses, addr) == Append(addresses, addr)

\* if !addresses.contains(addr) { addresses.push(*addr) }
PushIfAbsent(addresses, addr) ==
    IF Contains(addresses, addr) THEN addresses ELSE Append(addresses, addr)

\* for addr in &addresses { ... }
RECURSIVE AddAll(_, _)
AddAll(addresses, list) ==
    IF list = <<>> THEN addresses
    ELSE AddAll(PushIfAbsent(addresses, Head(list)), Tail(list))

\* realloc = 8 + 4 + ((whitelist.addresses.len() + 10) * 32)
ReallocSpace(addresses) == WhitelistBytes(Len(addresses) + WHITELIST_REALLOC_SLOTS)

AddToWhitelistErr(caller, token_count, td, wl, list) ==
    IF token_data[td] = NoAccount THEN "AccountNotInitialized"
    ELSE IF WhitelistAt(wl) = NoAccount THEN "AccountNotInitialized"
    ELSE IF TokenDataConstraintErr(caller, token_count, td) # OK
        THEN TokenDataConstraintErr(caller, token_count, td)
    ELSE IF wl # token_data[td].whitelist THEN "ConstraintAddress"
    ELSE IF list = <<>> THEN "InvalidAmount"
    ELSE IF WhitelistBytes(Len(AddAll(whitelist[wl].addresses, list)))
                > ReallocSpace(whitelist[wl].addresses)
        THEN "AccountDidNotSerialize"
    ELSE OK

AddToWhitelist(caller, token_count, td, wl, list) ==
    LET err == AddToWhitelistErr(caller, token_count, td, wl, list) IN
    /\ IF err = OK
       THEN whitelist' = [whitelist EXCEPT ![wl] =
                [addresses |-> AddAll(whitelist[wl].addresses, list),
                 space |-> ReallocSpace(whitelist[wl].addresses)]]
       ELSE UNCHANGED whitelist
    /\ last' = [op |-> "add_to_whitelist", err |-> err,
                by |-> Signer(caller, td),
                grew |-> (err = OK /\ AddAll(whitelist[wl].addresses, list)
                                        # whitelist[wl].addresses)]
    /\ UNCHANGED <<factory, token_data, mint_acct, balance, meta_list, hist>>

(***************************************************************************)
(* remove_from_whitelist                                                   *)
(***************************************************************************)
\* A removal that fills the hole from the back, as swap_remove does: the
\* addresses that stay come out in the opposite order.
RetainSwapped(addresses, addr) ==
    LET kept == SelectSeq(addresses, LAMBDA x : x # addr)
    IN [i \in 1 .. Len(kept) |-> kept[Len(kept) + 1 - i]]

\* addresses.retain(|&x| x != addr)
Retain(addresses, addr) == SelectSeq(addresses, LAMBDA x : x # addr)

\* for addr in addresses { ... }
RECURSIVE RemoveAll(_, _)
RemoveAll(addresses, list) ==
    IF list = <<>> THEN addresses
    ELSE RemoveAll(Retain(addresses, Head(list)), Tail(list))

RemoveFromWhitelistErr(caller, token_count, td, wl) ==
    IF token_data[td] = NoAccount THEN "AccountNotInitialized"
    ELSE IF WhitelistAt(wl) = NoAccount THEN "AccountNotInitialized"
    ELSE IF TokenDataConstraintErr(caller, token_count, td) # OK
        THEN TokenDataConstraintErr(caller, token_count, td)
    ELSE IF wl # token_data[td].whitelist THEN "ConstraintAddress"
    ELSE OK

RemoveFromWhitelist(caller, token_count, td, wl, list) ==
    LET err == RemoveFromWhitelistErr(caller, token_count, td, wl) IN
    /\ IF err = OK
       THEN whitelist' = [whitelist EXCEPT ![wl].addresses =
                RemoveAll(whitelist[wl].addresses, list)]
       ELSE UNCHANGED whitelist
    /\ last' = [op |-> "remove_from_whitelist", err |-> err,
                by |-> Signer(caller, td),
                shrank |-> (err = OK /\ RemoveAll(whitelist[wl].addresses, list)
                                          # whitelist[wl].addresses)]
    /\ UNCHANGED <<factory, token_data, mint_acct, balance, meta_list, hist>>

(***************************************************************************)
(* mint_tokens                                                             *)
(***************************************************************************)
\* A handler that asks the whitelist for the owner of the credited account.
MintTokensHandlerErrGated(caller, td, m, to_owner, amount) ==
    IF token_data[td].is_minting_paused THEN "MintingPaused"
    ELSE IF ~(amount > 0) THEN "InvalidAmount"
    ELSE IF ~Whitelisted(m, to_owner) THEN "AddressNotWhitelisted"
    ELSE IF MulOverflows(amount, Pow10(token_data[td].decimals)) THEN "InvalidAmount"
    ELSE IF mint_acct[m].mint_authority # MintAuthorityPda(caller) THEN "LedgerError"
    ELSE IF AddOverflows(mint_acct[m].supply, amount * Pow10(token_data[td].decimals))
        THEN "LedgerError"
    ELSE IF AddOverflows(token_data[td].total_supply, amount) THEN "InvalidAmount"
    ELSE OK

\* A handler that looks at the amount before it looks at the pause flag.
MintTokensHandlerErrAmountFirst(caller, td, m, to_owner, amount) ==
    IF ~(amount > 0) THEN "InvalidAmount"
    ELSE IF token_data[td].is_minting_paused THEN "MintingPaused"
    ELSE IF MulOverflows(amount, Pow10(token_data[td].decimals)) THEN "InvalidAmount"
    ELSE IF mint_acct[m].mint_authority # MintAuthorityPda(caller) THEN "LedgerError"
    ELSE IF AddOverflows(mint_acct[m].supply, amount * Pow10(token_data[td].decimals))
        THEN "LedgerError"
    ELSE IF AddOverflows(token_data[td].total_supply, amount) THEN "InvalidAmount"
    ELSE OK

\* The handler, from its first require! to the checked_add.  `to_owner` owns
\* the credited holding account.
MintTokensHandlerErr(caller, td, m, to_owner, amount) ==
    IF token_data[td].is_minting_paused THEN "MintingPaused"
    ELSE IF ~(amount > 0) THEN "InvalidAmount"
    ELSE IF MulOverflows(amount, Pow10(token_data[td].decimals)) THEN "InvalidAmount"
    \* mint_to: the ledger engine wants the mint's authority, the delegate
    \* derived from the signer, and room in the u64 supply.
    ELSE IF mint_acct[m].mint_authority # MintAuthorityPda(caller) THEN "LedgerError"
    ELSE IF AddOverflows(mint_acct[m].supply, amount * Pow10(token_data[td].decimals))
        THEN "LedgerError"
    ELSE IF AddOverflows(token_data[td].total_supply, amount) THEN "InvalidAmount"
    ELSE OK

\* A context without the constraints that tie mint and `to` to the TokenData.
MintTokensErrAnyMint(caller, token_count, td, m, to_owner, to_mint, amount) ==
    IF token_data[td] = NoAccount THEN "AccountNotInitialized"
    ELSE IF mint_acct[m] = NoAccount \/ mint_acct[to_mint] = NoAccount
        THEN "AccountNotInitialized"
    ELSE IF TokenDataConstraintErr(caller, token_count, td) # OK
        THEN TokenDataConstraintErr(caller, token_count, td)
    ELSE MintTokensHandlerErr(caller, td, m, to_owner, amount)

\* MintTokensCTX, then the handler.  `to_mint` is the mint of the account `to`.
MintTokensErr(caller, token_count, td, m, to_owner, to_mint, amount) ==
    IF token_data[td] = NoAccount THEN "AccountNotInitialized"
    ELSE IF mint_acct[m] = NoAccount \/ mint_acct[to_mint] = NoAccount
        THEN "AccountNotInitialized"
    ELSE IF TokenDataConstraintErr(caller, token_count, td) # OK
        THEN TokenDataConstraintErr(caller, token_count, td)
    ELSE IF m # token_data[td].mint THEN "ConstraintRaw"
    ELSE IF to_mint # token_data[td].mint THEN "ConstraintRaw"
    ELSE MintTokensHandlerErr(caller, td, m, to_owner, amount)

\* An update that adds the scaled amount to the human-unit counter.
SupplyAfterMintRaw(total_supply, amount) == total_supply + (amount * Pow10(DECIMALS))

\* total_supply.checked_add(amount)
SupplyAfterMint(total_supply, amount) == total_supply + amount

MintTokens(caller, token_count, td, m, to_owner, to_mint, amount) ==
    LET err == MintTokensErr(caller, token_count, td, m, to_owner, to_mint, amount)
        raw_amount == amount * Pow10(token_data[td].decimals)
    IN
    /\ last' = [op |-> "mint_tokens", err |-> err,
                by |-> Signer(caller, td),
                to_listed |-> Whitelisted(to_mint, to_owner)]
    /\ IF err = OK
       THEN /\ mint_acct' = [mint_acct EXCEPT ![m].supply = @ + raw_amount]
            /\ balance' = [balance EXCEPT ![m][to_owner] = @ + raw_amount]
            /\ token_data' = [token_data EXCEPT ![td].total_supply =
                   SupplyAfterMint(@, amount)]
            /\ hist' = [hist EXCEPT ![td] = @ + amount]
       ELSE UNCHANGED <<mint_acct, balance, token_data, hist>>
    /\ UNCHANGED <<factory, whitelist, meta_list>>

(***************************************************************************)
(* burn_tokens                                                             *)
(***************************************************************************)
BurnTokensHandlerErr(caller, td, m, from_owner, amount) ==
    IF ~(amount > 0) THEN "InvalidAmount"
    ELSE IF MulOverflows(amount, Pow10(token_data[td].decimals)) THEN "InvalidAmount"
    \* burn: the ledger engine wants the signer to own the debited account
    \* and the account to hold the amount.
    ELSE IF from_owner # caller THEN "LedgerError"
    ELSE IF balance[m][from_owner] < amount * Pow10(token_data[td].decimals)
        THEN "LedgerError"
    ELSE IF SubUnderflows(token_data[td].total_supply, amount) THEN "InvalidAmount"
    ELSE OK

BurnTokensErr(caller, token_count, td, m, from_owner, from_mint, amount) ==
    IF token_data[td] = NoAccount THEN "AccountNotInitialized"
    ELSE IF mint_acct[m] = NoAccount \/ mint_acct[from_mint] = NoAccount
        THEN "AccountNotInitialized"
    ELSE IF TokenDataConstraintErr(caller, token_count, td) # OK
        THEN TokenDataConstraintErr(caller, token_count, td)
    ELSE IF m # token_data[td].mint THEN "ConstraintRaw"
    ELSE IF from_mint # token_data[td].mint THEN "ConstraintRaw"
    ELSE BurnTokensHandlerErr(caller, td, m, from_owner, amount)

\* A burn that leaves the human-unit counter as it is.
SupplyAfterBurnKept(total_supply, amount) == total_supply

\* total_supply.checked_sub(amount)
SupplyAfterBurn(total_supply, amount) == total_supply - amount

BurnTokens(caller, token_count, td, m, from_owner, from_mint, amount) ==
    LET err == BurnTokensErr(caller, token_count, td, m, from_owner, from_mint, amount)
        raw_amount == amount * Pow10(token_data[td].decimals)
    IN
    /\ last' = [op |-> "burn_tokens", err |-> err,
                by |-> Signer(caller, td)]
    /\ IF err = OK
       THEN /\ mint_acct' = [mint_acct EXCEPT ![m].supply = @ - raw_amount]
            /\ balance' = [balance EXCEPT ![m][from_owner] = @ - raw_amount]
            /\ token_data' = [token_data EXCEPT ![td].total_supply =
                   SupplyAfterBurn(@, amount)]
            /\ hist' = [hist EXCEPT ![td] = @ - amount]
       ELSE UNCHANGED <<mint_acct, balance, token_data, hist>>
    /\ UNCHANGED <<factory, whitelist, meta_list>>

(***************************************************************************)
(* pause_minting, pause_token, transfer_authority                          *)
(***************************************************************************)
\* PauseMintingCTX, PauseTokenCTX and TransferAuthorityCTX hold the same
\* constraints; none of the three handlers returns an error.
TokenDataOnlyErr(caller, token_count, td) ==
    IF token_data[td] = NoAccount THEN "AccountNotInitialized"
    ELSE TokenDataConstraintErr(caller, token_count, td)

PauseMinting(caller, token_count, td) ==
    LET err == TokenDataOnlyErr(caller, token_count, td) IN
    /\ last' = [op |-> "pause_minting", err |-> err,
                by |-> Signer(caller, td)]
    /\ IF err = OK
       THEN token_data' = [token_data EXCEPT ![td].is_minting_paused = ~@]
       ELSE UNCHANGED token_data
    /\ UNCHANGED <<factory, whitelist, mint_acct, balance, meta_list, hist>>

\* A pause_token that sets the flag instead of flipping it.
PauseTokenSets(caller, token_count, td) ==
    LET err == TokenDataOnlyErr(caller, token_count, td) IN
    /\ last' = [op |-> "pause_token", err |-> err,
                by |-> Signer(caller, td)]
    /\ IF err = OK
       THEN token_data' = [token_data EXCEPT ![td].is_paused = TRUE]
       ELSE UNCHANGED token_data
    /\ UNCHANGED <<factory, whitelist, mint_acct, balance, meta_list, hist>>

PauseToken(caller, token_count, td) ==
    LET err == TokenDataOnlyErr(caller, token_count, td) IN
    /\ last' = [op |-> "pause_token", err |-> err,
                by |-> Signer(caller, td)]
    /\ IF err = OK
       THEN token_data' = [token_data EXCEPT ![td].is_paused = ~@]
       ELSE UNCHANGED token_data
    /\ UNCHANGED <<factory, whitelist, mint_acct, balance, meta_list, hist>>

\* A transfer_authority that also links the TokenData to the Whitelist address
\* derived from the new authority.
TransferAuthorityRelinks(caller, token_count, td, new_authority) ==
    LET err == TokenDataOnlyErr(caller, token_count, td) IN
    /\ last' = [op |-> "transfer_authority", err |-> err,
                by |-> Signer(caller, td)]
    /\ IF err = OK
       THEN token_data' = [token_data EXCEPT
                ![td].authority = new_authority,
                ![td].whitelist = WhitelistAddr(new_authority, token_count)]
       ELSE UNCHANGED token_data
    /\ UNCHANGED <<factory, whitelist, mint_acct, balance, meta_list, hist>>

TransferAuthority(caller, token_count, td, new_authority) ==
    LET err == TokenDataOnlyErr(caller, token_count, td) IN
    /\ last' = [op |-> "transfer_authority", err |-> err,
                by |-> Signer(caller, td)]
    /\ IF err = OK
       THEN token_data' = [token_data EXCEPT ![td].authority = new_authority]
       ELSE UNCHANGED token_data
    /\ UNCHANGED <<factory, whitelist, mint_acct, balance, meta_list, hist>>

(***************************************************************************)
(* initialize_extra_account_meta_list                                      *)
(***************************************************************************)
\* InitializeExtraAccountMetaList::extra_account_metas: the seeds of the one
\* extra account.  Neither parameter is read.
ExtraAccountMetas(authority, token_count) ==
    << [kind |-> "Literal", bytes |-> "whitelist",
        index |-> 0, data_index |-> 0, length |-> 0],
       [kind |-> "AccountKey", bytes |-> "",
        index |-> 0, data_index |-> 0, length |-> 0],
       [kind |-> "AccountData", bytes |-> "",
        index |-> 0, data_index |-> 0, length |-> 8] >>

\* Constraints that let the record of a mint be initialised again.
InitializeExtraAccountMetaListErrAgain(m, authority, token_count) ==
    IF mint_acct[m] = NoAccount THEN "AccountNotInitialized"
    ELSE IF WhitelistAt(WhitelistAddr(authority, token_count)) = NoAccount
        THEN "AccountNotInitialized"
    ELSE OK

InitializeExtraAccountMetaListErr(m, authority, token_count) ==
    IF meta_list[m] # NoAccount THEN "AccountAlreadyInUse"
    ELSE IF mint_acct[m] = NoAccount THEN "AccountNotInitialized"
    ELSE IF WhitelistAt(WhitelistAddr(authority, token_count)) = NoAccount
        THEN "AccountNotInitialized"
    ELSE OK

\* Any signer may pay: the instruction asks nothing of `payer`.
InitializeExtraAccountMetaList(payer, m, authority, token_count) ==
    LET err == InitializeExtraAccountMetaListErr(m, authority, token_count) IN
    /\ last' = [op |-> "initialize_extra_account_meta_list", err |-> err,
                by |-> "none"]
    /\ IF err = OK
       THEN meta_list' = [meta_list EXCEPT ![m] =
                ExtraAccountMetas(authority, token_count)]
       ELSE UNCHANGED meta_list
    /\ UNCHANGED <<factory, token_data, whitelist, mint_acct, balance, hist>>

(***************************************************************************)
(* The ledger engine's replay of the recipe on a transfer's accounts.      *)
(* The Execute instruction lists: 0 source holding account, 1 mint,        *)
(* 2 destination holding account, 3 source owner, 4 the recipe's record.   *)
(***************************************************************************)
\* A holding account's data begins with its mint (32 bytes), then its owner.
TokenAccountData(owner, m) ==
    << [offset |-> 0, length |-> PUBKEY_BYTES, key |-> MintKey(m)],
       [offset |-> PUBKEY_BYTES, length |-> PUBKEY_BYTES, key |-> WalletKey(owner)] >>

ExecuteAccounts(src_owner, m, dst_owner, owner) ==
    << [key |-> TokenAccountKey(src_owner, m), data |-> TokenAccountData(src_owner, m)],
       [key |-> MintKey(m), data |-> <<>>],
       [key |-> TokenAccountKey(dst_owner, m), data |-> TokenAccountData(dst_owner, m)],
       [key |-> WalletKey(owner), data |-> <<>>],
       [key |-> [tag |-> "extra-account-metas", owner |-> "", idx |-> m], data |-> <<>>] >>

\* The bytes data[data_index .. data_index + length).
DataSlice(data, data_index, length) ==
    LET f == CHOOSE i \in 1 .. Len(data) : data[i].offset = data_index
    IN KeyPrefix(data[f].key, length)

ResolveSeed(seed, accounts) ==
    CASE seed.kind = "Literal" -> seed.bytes
      [] seed.kind = "AccountKey" -> accounts[seed.index + 1].key
      [] seed.kind = "AccountData" ->
            DataSlice(accounts[seed.index + 1].data, seed.data_index, seed.length)

\* The address the recipe's seeds derive under this program.
ResolveExtraAccount(recipe, accounts) ==
    Derive(ResolveSeed(recipe[1], accounts),
           ResolveSeed(recipe[2], accounts),
           ResolveSeed(recipe[3], accounts))

(***************************************************************************)
(* transfer_hook                                                           *)
(***************************************************************************)
\* A handler that looks the destination up before it checks the marker.
TransferHookHandlerErrListFirst(transferring, addresses, destination_owner) ==
    IF ~Contains(addresses, destination_owner) THEN "AddressNotWhitelisted"
    ELSE IF ~transferring THEN "IsNotCurrentlyTransferring"
    ELSE OK

\* check_is_transferring, then the whitelist lookup.
TransferHookHandlerErr(transferring, addresses, destination_owner) ==
    IF ~transferring THEN "IsNotCurrentlyTransferring"
    ELSE IF ~Contains(addresses, destination_owner) THEN "AddressNotWhitelisted"
    ELSE OK

\* TransferHook's constraints, then the handler.  `wl` is the address of the
\* account passed as whitelist: any initialised Whitelist account is accepted.
TransferHookConstraintErr(src_mint, src_owner, m, dst_mint, owner, wl) ==
    IF mint_acct[m] = NoAccount \/ mint_acct[src_mint] = NoAccount
            \/ mint_acct[dst_mint] = NoAccount
        THEN "AccountNotInitialized"
    ELSE IF WhitelistAt(wl) = NoAccount THEN "AccountNotInitialized"
    ELSE IF src_mint # m THEN "ConstraintTokenMint"
    ELSE IF src_owner # owner THEN "ConstraintTokenOwner"
    ELSE IF dst_mint # m THEN "ConstraintTokenMint"
    ELSE OK

TransferHookErr(src_mint, src_owner, m, dst_mint, dst_owner, owner, wl, transferring) ==
    IF TransferHookConstraintErr(src_mint, src_owner, m, dst_mint, owner, wl) # OK
        THEN TransferHookConstraintErr(src_mint, src_owner, m, dst_mint, owner, wl)
    ELSE TransferHookHandlerErr(transferring, WhitelistAt(wl).addresses, dst_owner)

\* The instruction invoked on its own, outside a transfer: the marker of the
\* source holding account is not set.
TransferHook(src_owner, m, dst_owner, wl) ==
    LET err == TransferHookErr(m, src_owner, m, m, dst_owner, src_owner, wl, FALSE) IN
    /\ last' = [op |-> "transfer_hook", err |-> err, by |-> "none",
                in_flight |-> FALSE,
                handler |-> (TransferHookConstraintErr(m, src_owner, m, m, src_owner, wl) = OK),
                dst_listed |-> (WhitelistAt(wl) # NoAccount
                                 /\ Contains(WhitelistAt(wl).addresses, dst_owner))]
    /\ UNCHANGED <<factory, token_data, whitelist, mint_acct, balance, meta_list, hist>>

(***************************************************************************)
(* A transfer by the ledger engine: it checks the funds, sets the marker   *)
(* on the holding accounts, replays the recipe persisted for the mint,     *)
(* invokes transfer_hook on the resolved accounts and, when the hook       *)
(* returns no error, finalises the movement.                               *)
(***************************************************************************)
TransferErr(src_owner, m, dst_owner, raw_amount) ==
    IF mint_acct[m] = NoAccount THEN "LedgerError"
    ELSE IF balance[m][src_owner] < raw_amount THEN "LedgerError"
    ELSE IF meta_list[m] = NoAccount THEN "NotEnoughAccountKeys"
    ELSE TransferHookErr(m, src_owner, m, m, dst_owner, src_owner,
             ResolveExtraAccount(meta_list[m],
                 ExecuteAccounts(src_owner, m, dst_owner, src_owner)),
             TRUE)

Transfer(src_owner, m, dst_owner, amount) ==
    LET raw_amount == amount * Pow10(DECIMALS)
        err == TransferErr(src_owner, m, dst_owner, raw_amount)
    IN
    /\ ~MulOverflows(amount, Pow10(DECIMALS))
    /\ IF err = OK
       THEN balance' = [balance EXCEPT ![m] =
                [[@ EXCEPT ![src_owner] = @ - raw_amount]
                    EXCEPT ![dst_owner] = @ + raw_amount]]
       ELSE UNCHANGED balance
    /\ last' = [op |-> "transfer", err |-> err, by |-> "none",
                in_flight |-> (mint_acct[m] # NoAccount
                                /\ balance[m][src_owner] >= raw_amount),
                recipe |-> (meta_list[m] # NoAccount),
                dst_listed |-> Whitelisted(m, dst_owner),
                minting_paused |-> (mint_acct[m] # NoAccount
                                     /\ token_data[AssetOfMint(m)].is_minting_paused),
                paused |-> (mint_acct[m] # NoAccount
                             /\ token_data[AssetOfMint(m)].is_paused),
                moved |-> (balance' # balance)]
    /\ UNCHANGED <<factory, token_data, whitelist, mint_acct, meta_list, hist>>

\* Address lists of at most MaxListLen entries, repeats included.
AddressLists == UNION {[1 .. n -> Keys] : n \in 0 .. MaxListLen}

(***************************************************************************)
(* The instructions, their inputs drawn from the sets of D.                *)
(***************************************************************************)
NextOn(D) ==
    \/ \E authority \in D.creators : CreateFactory(authority)
    \/ \E authority \in D.creators, m \in D.mints, total_supply \in D.supplies,
          lens \in D.lens, default_address \in D.seeds, ext \in D.collaborators :
            /\ factory[authority] # NoAccount => factory[authority].token_count \in D.slots
            /\ CreateToken(authority, m, total_supply, lens, default_address, ext)
    \/ \E caller \in D.listers, k \in D.creators, n \in D.slots, list \in D.lists :
            AddToWhitelist(caller, n, TokenAddr(k, n), WhitelistAddr(k, n), list)
    \/ \E caller \in D.listers, k \in D.creators, n \in D.slots, list \in D.lists :
            RemoveFromWhitelist(caller, n, TokenAddr(k, n), WhitelistAddr(k, n), list)
    \/ \E caller \in D.minters, k \in D.creators, n \in D.slots, m \in D.mints,
          to_owner \in D.holders, amount \in D.amounts :
            MintTokens(caller, n, TokenAddr(k, n), m, to_owner, m, amount)
    \/ \E caller \in D.minters, k \in D.creators, n \in D.slots, m \in D.mints,
          from_owner \in D.holders, amount \in D.amounts :
            BurnTokens(caller, n, TokenAddr(k, n), m, from_owner, m, amount)
    \/ \E caller \in D.pausers, k \in D.creators, n \in D.slots :
            PauseMinting(caller, n, TokenAddr(k, n))
    \/ \E caller \in D.pausers, k \in D.creators, n \in D.slots :
            PauseToken(caller, n, TokenAddr(k, n))
    \/ \E caller \in D.transferors, k \in D.creators, n \in D.slots,
          new_authority \in D.new_authorities :
            TransferAuthority(caller, n, TokenAddr(k, n), new_authority)
    \/ \E payer \in D.creators, m \in D.mints, k \in D.creators, n \in D.slots :
            InitializeExtraAccountMetaList(payer, m, k, n)
    \/ \E src_owner \in D.holders, m \in D.mints, dst_owner \in D.holders,
          k \in D.creators, n \in D.slots :
            TransferHook(src_owner, m, dst_owner, WhitelistAddr(k, n))
    \/ \E src_owner \in D.holders, m \in D.mints, dst_owner \in D.holders,
          amount \in D.transfers :
            Transfer(src_owner, m, dst_owner, amount)

\* One asset of authority A, whitelist seeded with B; every wallet calls every
\* instruction; the address lists are empty or hold C.
Domains ==
    [creators |-> {"A"}, slots |-> {0}, mints |-> {1}, seeds |-> {"B"},
     supplies |-> Amounts, lens |-> MetadataLens, collaborators |-> Collaborators,
     listers |-> Keys, lists |-> {<<>>, <<"C">>},
     minters |-> Keys, holders |-> Keys, amounts |-> {0, 1, MaxAmount},
     pausers |-> Keys, transferors |-> Keys, new_authorities |-> Keys,
     transfers |-> {1}]

Next == NextOn(Domains)

Spec == Init /\ [][Next]_vars

\* One asset of authority A with any seed; every wallet passes every address
\* list of at most MaxListLen entries; the supply and the authority stay.
WhitelistDomains ==
    [creators |-> {"A"}, slots |-> {0}, mints |-> {1}, seeds |-> Keys,
     supplies |-> {1}, lens |-> MetadataLens, collaborators |-> {"ok"},
     listers |-> Keys, lists |-> AddressLists,
     minters |-> {"A"}, holders |-> {"A"}, amounts |-> {0},
     pausers |-> {"A"}, transferors |-> {"A"}, new_authorities |-> {"A"},
     transfers |-> {1}]

NextWhitelist == NextOn(WhitelistDomains)

SpecWhitelist == Init /\ [][NextWhitelist]_vars

\* The factories of A and B, as many assets as there are mint keys.
FactoryDomains ==
    [creators |-> {"A", "B"}, slots |-> TokenCounts, mints |-> MintKeys,
     seeds |-> {"A"}, supplies |-> {0, 1}, lens |-> MetadataLens,
     collaborators |-> Collaborators,
     listers |-> {"C"}, lists |-> {<<"C">>},
     minters |-> {"C"}, holders |-> {"A"}, amounts |-> {1},
     pausers |-> {"A"}, transferors |-> {"B"}, new_authorities |-> {"A"},
     transfers |-> {1}]

NextFactory == NextOn(FactoryDomains)

SpecFactory == Init /\ [][NextFactory]_vars

\* Eleven wallets that hold nothing: one more than the slots a realloc adds.
BulkAddresses == <<"K1", "K2", "K3", "K4", "K5", "K6", "K7", "K8", "K9", "K10", "K11">>

\* Lists that fill the added slots exactly, and that need one slot more.
BulkLists == {SubSeq(BulkAddresses, 1, WHITELIST_REALLOC_SLOTS),
              SubSeq(BulkAddresses, 1, WHITELIST_REALLOC_SLOTS + 1)}

\* One asset of authority A, whitelist seeded with B; A adds and removes one
\* address or a bulk list.
CapacityDomains ==
    [creators |-> {"A"}, slots |-> {0}, mints |-> {1}, seeds |-> {"B"},
     supplies |-> {1}, lens |-> MetadataLens, collaborators |-> {"ok"},
     listers |-> {"A"}, lists |-> {<<"C">>} \cup BulkLists,
     minters |-> {"A"}, holders |-> {"A"}, amounts |-> {1},
     pausers |-> {"A"}, transferors |-> {"A"}, new_authorities |-> {"A"},
     transfers |-> {1}]

NextCapacity == NextOn(CapacityDomains)

SpecCapacity == Init /\ [][NextCapacity]_vars

\* Two assets of authority A, which share the delegate PDA("mint_authority", A);
\* A passes either slot with either mint and lists C; the flags stay, C being
\* refused the toggles.
CrossDomains ==
    [creators |-> {"A"}, slots |-> TokenCounts, mints |-> MintKeys, seeds |-> {"B"},
     supplies |-> {2}, lens |-> {<<MAX_NAME_LEN, MAX_SYMBOL_LEN, MAX_URI_LEN>>},
     collaborators |-> {"ok"},
     listers |-> {"A"}, lists |-> {<<"C">>},
     minters |-> {"A"}, holders |-> {"A"}, amounts |-> {2},
     pausers |-> {"C"}, transferors |-> {"A"}, new_authorities |-> {"A"},
     transfers |-> {1}]

NextCross == NextOn(CrossDomains)

SpecCross == Init /\ [][NextCross]_vars

(***************************************************************************)
(* Properties.                                                             *)
(***************************************************************************)
ExistingAssets == {t \in TokenAddrs : token_data[t] # NoAccount}

AuthorityGatedOps == {"add_to_whitelist", "remove_from_whitelist", "mint_tokens",
                      "burn_tokens", "pause_minting", "pause_token",
                      "transfer_authority"}

\* C1: a transfer of an asset whose recipe is persisted, the marker set on the
\* source account: the hook rejects it with AddressNotWhitelisted, moving no
\* balance, when the destination's owner is not in the asset's whitelist, and
\* lets it be finalised when the owner is.
C1_TransferDecidedByWhitelist ==
    (last.op = "transfer" /\ last.in_flight /\ last.recipe) =>
        IF last.dst_listed
        THEN last.err = OK
        ELSE last.err = "AddressNotWhitelisted" /\ ~last.moved

\* C2: the recipe persisted for an asset, replayed on the accounts of any
\* transfer of the asset, resolves to the address of the Whitelist account
\* create_token initialised for it, derive("whitelist", A, n).
C2_RecipeResolvesToWhitelist ==
    \A t \in ExistingAssets :
        meta_list[token_data[t].mint] # NoAccount =>
            \A src \in Keys, dst \in Keys :
                ResolveExtraAccount(meta_list[token_data[t].mint],
                    ExecuteAccounts(src, token_data[t].mint, dst, src))
                = token_data[t].whitelist

\* C3: an authority-gated instruction signed by the authority its TokenData
\* records (after transfer_authority: the new authority) is not turned away
\* by the account constraints, and succeeds when it takes no further
\* argument; signed by any other wallet (the previous authority) it fails.
C3_RecordedAuthorityIsAccepted ==
    last.op \in AuthorityGatedOps =>
        /\ last.by = "authority" =>
              /\ last.err \notin {"ConstraintSeeds", "ConstraintHasOne"}
              /\ last.op \in {"pause_minting", "pause_token", "transfer_authority",
                              "remove_from_whitelist"} => last.err = OK
        /\ last.by = "other" => last.err # OK

\* C4: total_supply is the initial supply plus the amounts minted minus the
\* amounts burned, in human units, and stays within the unsigned word: a
\* mint or burn that fails leaves it as it was.
C4_SupplyIsInitialPlusMintsMinusBurns ==
    \A t \in ExistingAssets :
        /\ token_data[t].total_supply = hist[t]
        /\ token_data[t].total_supply >= 0
        /\ token_data[t].total_supply <= MaxU64

C4_Witness ==
    /\ last.op = "burn_tokens" /\ last.err = OK
    /\ \E t \in ExistingAssets : token_data[t].total_supply = 0 /\ hist[t] = 0

\* C5: add_to_whitelist, remove_from_whitelist, mint_tokens, pause_minting,
\* pause_token and transfer_authority, signed by a wallet that is not the
\* authority the asset records, fail with Unauthorized and change no account.
C5_OtherSignerGetsUnauthorized ==
    [][(last'.op \in AuthorityGatedOps \ {"burn_tokens"} /\ last'.by = "other") =>
          /\ last'.err = "Unauthorized"
          /\ UNCHANGED <<factory, token_data, whitelist, mint_acct, balance, meta_list>>
      ]_vars

\* C6: transfer_hook run while the marker of the source account is not set
\* fails with IsNotCurrentlyTransferring, whether or not the destination's
\* owner is in the whitelist passed to it.
C6_UnmarkedHookFailsBeforeLookup ==
    (last.op = "transfer_hook" /\ last.handler /\ ~last.in_flight) =>
        last.err = "IsNotCurrentlyTransferring"

C6_Witness ==
    /\ last.op = "transfer_hook" /\ last.handler /\ ~last.in_flight
    /\ ~last.dst_listed
    /\ last.err = "IsNotCurrentlyTransferring"

\* C8 as claimed: no mint, by create_token or by mint_tokens, credits an
\* account whose owner is not in the asset's whitelist.
C8_MintOnlyToWhitelisted ==
    (last.op \in {"create_token", "mint_tokens"} /\ last.err = OK) => last.to_listed

\* C8: the whitelist does not gate minting: the result of mint_tokens is the
\* same for every owner of the credited account, in the whitelist or not,
\* and is never AddressNotWhitelisted.
C8_MintIgnoresWhitelist ==
    /\ last.op = "mint_tokens" => last.err # "AddressNotWhitelisted"
    /\ \A t \in ExistingAssets, caller \in Keys, n \in TokenCounts, amount \in Amounts,
          o1 \in Keys, o2 \in Keys :
            MintTokensErr(caller, n, t, token_data[t].mint, o1, token_data[t].mint, amount)
            = MintTokensErr(caller, n, t, token_data[t].mint, o2, token_data[t].mint, amount)

C8_Witness ==
    last.op = "mint_tokens" /\ last.err = OK /\ ~last.to_listed

\* C7: a successful create_token by authority A records A as the asset's
\* authority and advances A's token_count by exactly 1, at an address that held
\* no asset; no other step changes a factory's token_count, an asset is
\* never initialised again, and the assets of A are those numbered below
\* A's token_count, one each.
C7_SequenceAdvancesByOne ==
    [][ /\ \A a \in Keys :
              factory[a] # NoAccount =>
                  /\ factory'[a] # NoAccount
                  /\ factory'[a].token_count >= factory[a].token_count
                  /\ (last'.op # "create_token" \/ last'.err # OK) =>
                          factory'[a] = factory[a]
        /\ (last'.op = "create_token" /\ last'.err = OK) =>
              \E a \in {b \in Keys : factory[b] # NoAccount} :
                  LET td == TokenAddr(a, factory[a].token_count) IN
                  /\ factory'[a].token_count = factory[a].token_count + 1
                  /\ \A b \in Keys \ {a} : factory'[b] = factory[b]
                  /\ token_data[td] = NoAccount
                  /\ token_data'[td] # NoAccount
                  /\ token_data'[td].authority = a
                  /\ \A t \in TokenAddrs \ {td} : token_data'[t] = token_data[t]
        /\ \A t \in TokenAddrs :
              token_data[t] # NoAccount =>
                  /\ token_data'[t] # NoAccount
                  /\ token_data'[t].mint = token_data[t].mint
                  /\ token_data'[t].whitelist = token_data[t].whitelist
        /\ \A a \in Keys, n \in TokenCounts :
              token_data'[TokenAddr(a, n)] # NoAccount
                  <=> (factory'[a] # NoAccount /\ n < factory'[a].token_count)
      ]_vars

C7_Witness ==
    /\ last.op = "create_token" /\ last.err = OK
    /\ \E a \in Keys :
          /\ factory[a] # NoAccount /\ factory[a].token_count = 2
          /\ token_data[TokenAddr(a, 0)] # NoAccount
          /\ token_data[TokenAddr(a, 1)] # NoAccount
          /\ token_data[TokenAddr(a, 0)].mint # token_data[TokenAddr(a, 1)].mint

Occurrences(s, x) == Cardinality({i \in 1 .. Len(s) : s[i] = x})
HasRepeat(s) == \E i \in 1 .. Len(s), j \in 1 .. Len(s) : i # j /\ s[i] = s[j]

\* C9: after a successful add_to_whitelist of a list L, a second add of L
\* succeeds and leaves the addresses and their order as they are; an add
\* by the authority of a non-empty list whose identities are all present, or
\* which repeats an identity, returns no error; every identity of L ends up
\* listed once, the others as often as before.
C9_AddIsIdempotent ==
    [][ last'.op = "add_to_whitelist" =>
        \A k \in Keys, n \in TokenCounts :
          LET td == TokenAddr(k, n)
              wl == WhitelistAddr(k, n)
          IN
          token_data[td] # NoAccount =>
            /\ (last'.err # OK /\ Signer(k, td) = "authority") =>
                  \A list \in AddressLists \ {<<>>} :
                      (HasRepeat(list)
                         \/ \A i \in 1 .. Len(list) :
                               Contains(whitelist[wl].addresses, list[i]))
                      => ~AddToWhitelist(k, n, td, wl, list)
            /\ last'.err = OK =>
                  \A caller \in Keys, list \in AddressLists :
                      ( /\ AddToWhitelistErr(caller, n, td, wl, list) = OK
                        /\ AddToWhitelist(caller, n, td, wl, list) )
                      =>
                        /\ (AddToWhitelistErr(caller, n, td, wl, list))' = OK
                        /\ AddAll(whitelist'[wl].addresses, list) = whitelist'[wl].addresses
                        /\ \A x \in Keys :
                              Occurrences(whitelist'[wl].addresses, x) =
                                  IF Contains(whitelist[wl].addresses, x)
                                  THEN Occurrences(whitelist[wl].addresses, x)
                                  ELSE IF Contains(list, x) THEN 1 ELSE 0
                        /\ SubSeq(whitelist'[wl].addresses, 1,
                                  Len(whitelist[wl].addresses))
                              = whitelist[wl].addresses
      ]_vars

C9_Witness ==
    /\ last.op = "add_to_whitelist" /\ last.err = OK /\ ~last.grew
    /\ \E w \in WhitelistAddrs : whitelist[w] # NoAccount /\ Len(whitelist[w].addresses) >= 2

\* C10: no Whitelist account holds the same identity twice.
C10_NoDuplicateAddresses ==
    \A w \in WhitelistAddrs :
        whitelist[w] # NoAccount => ~HasRepeat(whitelist[w].addresses)

C10_Witness ==
    /\ last.op = "add_to_whitelist" /\ last.err = OK /\ last.grew
    /\ \E w \in WhitelistAddrs :
          whitelist[w] # NoAccount /\ Len(whitelist[w].addresses) = Cardinality(Keys)

\* C11: a successful remove_from_whitelist of a list L leaves exactly the
\* addresses that are not in L, in the order they had, and changes no other
\* account; signed by the authority with no identity of L present it returns
\* no error and the whitelist stays as it was.
C11_RemoveTakesOutOnlyTheListed ==
    [][ last'.op = "remove_from_whitelist" =>
        \A k \in Keys, n \in TokenCounts :
          LET td == TokenAddr(k, n)
              wl == WhitelistAddr(k, n)
          IN
          token_data[td] # NoAccount =>
            /\ (last'.err # OK /\ Signer(k, td) = "authority") =>
                  \A list \in AddressLists :
                      (\A i \in 1 .. Len(list) :
                            ~Contains(whitelist[wl].addresses, list[i]))
                      => ~RemoveFromWhitelist(k, n, td, wl, list)
            /\ last'.err = OK =>
                  \A caller \in Keys, list \in AddressLists :
                      ( /\ RemoveFromWhitelistErr(caller, n, td, wl) = OK
                        /\ RemoveFromWhitelist(caller, n, td, wl, list) )
                      =>
                        /\ \A i \in 1 .. Len(list) :
                              ~Contains(whitelist'[wl].addresses, list[i])
                        /\ whitelist'[wl].addresses =
                              SelectSeq(whitelist[wl].addresses,
                                        LAMBDA x : ~Contains(list, x))
                        /\ (\A i \in 1 .. Len(list) :
                                ~Contains(whitelist[wl].addresses, list[i]))
                              => whitelist' = whitelist
                        /\ \A w \in WhitelistAddrs \ {wl} : whitelist'[w] = whitelist[w]
                        /\ UNCHANGED <<factory, token_data, mint_acct, balance, meta_list>>
      ]_vars

C11_Witness ==
    /\ last.op = "remove_from_whitelist" /\ last.err = OK /\ last.shrank
    /\ \E w \in WhitelistAddrs : whitelist[w] # NoAccount /\ Len(whitelist[w].addresses) = 2

\* C12: the scenario's transfers.  A funded transfer of an asset whose recipe
\* is persisted fails with AddressNotWhitelisted while the destination's
\* owner is not in the asset's whitelist and succeeds as soon as an
\* add_to_whitelist has listed the owner; approved or rejected, it leaves
\* total_supply and every other field of the TokenData as it was.
C12_TransferFollowsWhitelistOfTheMoment ==
    [][ last'.op = "transfer" =>
        \A src_owner \in Keys, m \in MintKeys, dst_owner \in Keys, amount \in Amounts :
            ( /\ mint_acct[m] # NoAccount
              /\ meta_list[m] # NoAccount
              /\ ~MulOverflows(amount, Pow10(DECIMALS))
              /\ balance[m][src_owner] >= amount * Pow10(DECIMALS)
              /\ Transfer(src_owner, m, dst_owner, amount) )
            =>
              /\ last'.err = IF Whitelisted(m, dst_owner)
                             THEN OK ELSE "AddressNotWhitelisted"
              /\ token_data' = token_data
      ]_vars

\* C13 as claimed: a funded transfer of an asset whose recipe is persisted,
\* to a destination whose owner is in the asset's whitelist, succeeds while
\* is_minting_paused is set and is_paused is not.
C13_ListedTransferSucceedsWhileMintingPaused ==
    ( /\ last.op = "transfer" /\ last.in_flight /\ last.recipe
      /\ last.dst_listed /\ last.minting_paused /\ ~last.paused )
    => last.err = OK

\* C13, the part the program keeps: pause_minting and pause_token change the
\* result of no transfer_hook invocation and of no transfer, whatever the
\* accounts, the whitelist passed and the marker.
C13_PauseFlagsLeaveHookResult ==
    [][ (last'.op \in {"pause_minting", "pause_token"} /\ last'.err = OK) =>
        \A src_owner \in Keys, m \in MintKeys, dst_owner \in Keys :
            /\ \A wl \in WhitelistAddrs, transferring \in BOOLEAN :
                  (TransferHookErr(m, src_owner, m, m, dst_owner, src_owner,
                                   wl, transferring))'
                  = TransferHookErr(m, src_owner, m, m, dst_owner, src_owner,
                                    wl, transferring)
            /\ \A amount \in Amounts :
                  ~MulOverflows(amount, Pow10(DECIMALS)) =>
                      (TransferErr(src_owner, m, dst_owner, amount * Pow10(DECIMALS)))'
                      = TransferErr(src_owner, m, dst_owner, amount * Pow10(DECIMALS))
      ]_vars

\* C14: a successful pause_token flips is_paused and a successful
\* pause_minting flips is_minting_paused of the TokenData addressed, and
\* changes nothing else in any account; the same signer may toggle again at
\* once, and that second toggle gives back the TokenData of before the first.
C14_ToggleFlipsOnlyItsFlag ==
    [][ (last'.op \in {"pause_minting", "pause_token"} /\ last'.err = OK) =>
        \A caller \in Keys, k \in Keys, n \in TokenCounts :
          LET td == TokenAddr(k, n) IN
          /\ PauseToken(caller, n, td) =>
                /\ token_data' = [token_data EXCEPT ![td].is_paused = ~@]
                /\ token_data'[td].is_paused # token_data[td].is_paused
                /\ (TokenDataOnlyErr(caller, n, td))' = OK
                /\ [token_data' EXCEPT ![td].is_paused = ~@] = token_data
                /\ UNCHANGED <<factory, whitelist, mint_acct, balance, meta_list>>
          /\ PauseMinting(caller, n, td) =>
                /\ token_data' = [token_data EXCEPT ![td].is_minting_paused = ~@]
                /\ token_data'[td].is_minting_paused # token_data[td].is_minting_paused
                /\ (TokenDataOnlyErr(caller, n, td))' = OK
                /\ [token_data' EXCEPT ![td].is_minting_paused = ~@] = token_data
                /\ UNCHANGED <<factory, whitelist, mint_acct, balance, meta_list>>
      ]_vars

\* pause_token has just cleared is_paused again, is_minting_paused being set.
C14_Witness ==
    /\ last.op = "pause_token" /\ last.err = OK
    /\ \E t \in ExistingAssets :
          ~token_data[t].is_paused /\ token_data[t].is_minting_paused

\* C15: mint_tokens and burn_tokens signed by the authority, on the accounts
\* of the asset.  mint_tokens returns MintingPaused while is_minting_paused
\* is set; with the flag clear it returns InvalidAmount for an amount of 0 or
\* one whose scaling by 10^decimals overflows, and Ok for an amount the
\* words of the supplies have room for.  burn_tokens returns InvalidAmount for
\* an amount of 0 or one whose scaling overflows.  A mint or burn that
\* returns an error changes no account.
C15_MintAndBurnValidation ==
    [][ last'.op \in {"mint_tokens", "burn_tokens"} =>
        /\ last'.err # OK =>
              UNCHANGED <<factory, token_data, whitelist, mint_acct, balance, meta_list>>
        /\ last'.by = "authority" =>
            \A k \in Keys, n \in TokenCounts :
              LET td == TokenAddr(k, n) IN
              (token_data[td] # NoAccount /\ Signer(k, td) = "authority") =>
                \A owner \in Keys, amount \in Amounts :
                  LET m == token_data[td].mint
                      scale == Pow10(token_data[td].decimals)
                  IN
                  /\ ( /\ last'.op = "mint_tokens"
                       /\ last'.err = MintTokensErr(k, n, td, m, owner, m, amount)
                       /\ MintTokens(k, n, td, m, owner, m, amount) )
                     =>
                       /\ token_data[td].is_minting_paused
                             => last'.err = "MintingPaused"
                       /\ (~token_data[td].is_minting_paused
                             /\ (amount = 0 \/ MulOverflows(amount, scale)))
                             => last'.err = "InvalidAmount"
                       /\ ( /\ ~token_data[td].is_minting_paused
                            /\ amount > 0
                            /\ ~MulOverflows(amount, scale)
                            /\ ~AddOverflows(mint_acct[m].supply, amount * scale)
                            /\ ~AddOverflows(token_data[td].total_supply, amount) )
                             => last'.err = OK
                  /\ ( /\ last'.op = "burn_tokens"
                       /\ last'.err = BurnTokensErr(k, n, td, m, owner, m, amount)
                       /\ BurnTokens(k, n, td, m, owner, m, amount) )
                     =>
                       ((amount = 0 \/ MulOverflows(amount, scale))
                             => last'.err = "InvalidAmount")
      ]_vars

\* The authority's mint was turned away because minting is paused.
C15_Witness ==
    /\ last.op = "mint_tokens" /\ last.err = "MintingPaused" /\ last.by = "authority"
    /\ \E t \in ExistingAssets :
          token_data[t].is_minting_paused /\ token_data[t].total_supply = hist[t]

\* C16: create_token signed by the authority of an existing factory, with a
\* fresh mint.  It returns NameTooLong for a name of more than 32 bytes,
\* else SymbolTooLong for a symbol of more than 10, else UriTooLong for a uri
\* of more than 200; with the lengths in range and a positive supply it
\* fails when a collaborator fails, and otherwise returns InvalidAmount when
\* total_supply * 10^decimals overflows.  After any failed create_token the
\* TokenData and Whitelist addresses of the attempted slot hold no account
\* and no account has changed, the factory's token_count included; a
\* create_token that succeeds had its lengths in range and a supply that
\* scales without overflow.
C16_CreateTokenFailuresLeaveNoAsset ==
    [][ last'.op = "create_token" =>
        /\ last'.err = OK =>
            \A a \in Keys :
                (factory[a] # NoAccount /\ factory'[a] # factory[a]) =>
                    LET new == token_data'[TokenAddr(a, factory[a].token_count)] IN
                    /\ new.name_len <= 32 /\ new.symbol_len <= 10 /\ new.uri_len <= 200
                    /\ new.total_supply > 0
                    /\ ~MulOverflows(new.total_supply, Pow10(new.decimals))
        /\ last'.err # OK =>
            /\ UNCHANGED <<factory, token_data, whitelist, mint_acct, balance, meta_list>>
            /\ \A authority \in Keys, m \in MintKeys :
                (factory[authority] # NoAccount /\ mint_acct[m] = NoAccount) =>
                  LET n == factory[authority].token_count IN
                  \A total_supply \in Amounts, lens \in MetadataLens, ext \in Collaborators :
                    (last'.err = CreateTokenErr(authority, m, total_supply,
                                                lens[1], lens[2], lens[3], ext)) =>
                      \A default_address \in Keys :
                        CreateToken(authority, m, total_supply, lens, default_address, ext) =>
                          /\ token_data'[TokenAddr(authority, n)] = NoAccount
                          /\ whitelist'[WhitelistAddr(authority, n)] = NoAccount
                          /\ factory'[authority].token_count = n
                          /\ lens[1] > 32 => last'.err = "NameTooLong"
                          /\ (lens[1] <= 32 /\ lens[2] > 10) => last'.err = "SymbolTooLong"
                          /\ (lens[1] <= 32 /\ lens[2] <= 10 /\ lens[3] > 200)
                                => last'.err = "UriTooLong"
                          /\ ( /\ lens[1] <= 32 /\ lens[2] <= 10 /\ lens[3] <= 200
                               /\ total_supply > 0 /\ ext = "ok" )
                                => /\ last'.err = "InvalidAmount"
                                   /\ MulOverflows(total_supply, Pow10(DECIMALS))
      ]_vars

\* The metadata registrar turned the call down: the factory of the signer
\* still counts no asset and slot 0 is empty.
C16_Witness ==
    /\ last.op = "create_token" /\ last.err = "MetadataError"
    /\ \E a \in Keys :
          /\ factory[a] # NoAccount /\ factory[a].token_count = 0
          /\ token_data[TokenAddr(a, 0)] = NoAccount
          /\ whitelist[WhitelistAddr(a, 0)] = NoAccount

C18_CreatedAssetState ==
    [][ (last'.op = "create_token" /\ last'.err = OK) =>
        \A authority \in Keys, m \in MintKeys :
          (factory[authority] # NoAccount /\ mint_acct[m] = NoAccount) =>
            \A total_supply \in Amounts, lens \in MetadataLens,
               default_address \in Keys, ext \in Collaborators :
              CreateToken(authority, m, total_supply, lens, default_address, ext) =>
                LET n == factory[authority].token_count
                    new == token_data'[TokenAddr(authority, n)]
                    wl == WhitelistAddr(authority, n)
                IN
                /\ new.total_supply = total_supply
                /\ new.mint = m
                /\ new.authority = authority
                /\ balance'[m][authority] = total_supply * Pow10(new.decimals)
                /\ mint_acct'[m].supply = total_supply * Pow10(new.decimals)
                /\ \A k \in Keys \ {authority} : balance'[m][k] = 0
                /\ ~new.is_paused
                /\ ~new.is_minting_paused
                /\ whitelist'[wl].addresses = <<default_address>>
                /\ Contains(whitelist'[wl].addresses, authority)
                      <=> authority = default_address
                /\ new.whitelist = wl
      ]_vars

\* An asset was just created whose authority is not the default address.
C18_Witness ==
    /\ last.op = "create_token" /\ last.err = OK /\ ~last.to_listed
    /\ \E t \in ExistingAssets :
          /\ token_data[t].total_supply = 1
          /\ balance[token_data[t].mint][token_data[t].authority] = Pow10(DECIMALS)
          /\ Len(whitelist[token_data[t].whitelist].addresses) = 1

C20_AddSucceedsForAnyNumberOfNewIdentities ==
    [][ /\ (last'.op = "add_to_whitelist" /\ last'.by = "authority") =>
            \A k \in Keys, n \in TokenCounts :
              LET td == TokenAddr(k, n)
                  wl == WhitelistAddr(k, n)
              IN
              (token_data[td] # NoAccount /\ Signer(k, td) = "authority") =>
                \A list \in (AddressLists \ {<<>>}) \cup BulkLists :
                  ( /\ last'.err = AddToWhitelistErr(k, n, td, wl, list)
                    /\ AddToWhitelist(k, n, td, wl, list) )
                  =>
                    /\ last'.err = OK
                    /\ \A i \in 1 .. Len(list) :
                          Contains(whitelist'[wl].addresses, list[i])
                    /\ whitelist'[wl].space
                          >= WhitelistBytes(Len(whitelist'[wl].addresses))
        /\ last'.op = "remove_from_whitelist" =>
            \A w \in WhitelistAddrs :
                whitelist[w] # NoAccount => whitelist'[w].space >= whitelist[w].space
      ]_vars

\* C21: a TokenData, once initialised, stays, and no step changes its mint,
\* decimals or whitelist field.  The TokenData at PDA("token", A, n) exists
\* exactly when the Whitelist at PDA("whitelist", A, n) does, both come
\* into being in one create_token step, the whitelist field is that
\* address, and no two TokenData share a whitelist or a mint.
C21_MintDecimalsWhitelistAreFixed ==
    [][ /\ \A t \in TokenAddrs :
            token_data[t] # NoAccount =>
                /\ token_data'[t] # NoAccount
                /\ token_data'[t].mint = token_data[t].mint
                /\ token_data'[t].decimals = token_data[t].decimals
                /\ token_data'[t].whitelist = token_data[t].whitelist
        /\ \A a \in Keys, n \in TokenCounts :
            LET td == TokenAddr(a, n)
                wl == WhitelistAddr(a, n)
            IN
            /\ token_data'[td] # NoAccount <=> whitelist'[wl] # NoAccount
            /\ token_data'[td] # NoAccount => token_data'[td].whitelist = wl
            /\ (token_data[td] = NoAccount /\ token_data'[td] # NoAccount) =>
                  /\ whitelist[wl] = NoAccount
                  /\ last'.op = "create_token" /\ last'.err = OK
            /\ (whitelist[wl] # NoAccount) => whitelist'[wl] # NoAccount
        /\ \A t1 \in TokenAddrs, t2 \in TokenAddrs :
            (t1 # t2 /\ token_data'[t1] # NoAccount /\ token_data'[t2] # NoAccount) =>
                /\ token_data'[t1].whitelist # token_data'[t2].whitelist
                /\ token_data'[t1].mint # token_data'[t2].mint
      ]_vars

\* transfer_authority has just acted on one of two assets.
C21_Witness ==
    /\ last.op = "transfer_authority" /\ last.err = OK
    /\ \E t1 \in ExistingAssets, t2 \in ExistingAssets :
          /\ t1 # t2
          /\ token_data[t1].whitelist # token_data[t2].whitelist

\* The raw units all holding accounts of a mint hold together.
RECURSIVE SumBalances(_, _)
SumBalances(m, owners) ==
    IF owners = {} THEN 0
    ELSE LET k == CHOOSE x \in owners : TRUE
         IN balance[m][k] + SumBalances(m, owners \ {k})

\* C22: for every asset, the mint's raw supply is total_supply scaled by
\* 10^decimals, a whole number of human units, and is the sum of the
\* balances of the mint's holding accounts.
C22_SupplyMatchesLedger ==
    \A t \in ExistingAssets :
        LET m == token_data[t].mint
            scale == Pow10(token_data[t].decimals)
        IN
        /\ mint_acct[m] # NoAccount
        /\ mint_acct[m].decimals = token_data[t].decimals
        /\ mint_acct[m].supply % scale = 0
        /\ mint_acct[m].supply \div scale = token_data[t].total_supply
        /\ SumBalances(m, Keys) = mint_acct[m].supply

\* After mints and a burn the supply lies in the accounts of two owners.
C22_Witness ==
    /\ last.op = "burn_tokens" /\ last.err = OK
    /\ \E t \in ExistingAssets :
          /\ token_data[t].total_supply = 1
          /\ mint_acct[token_data[t].mint].supply = Pow10(DECIMALS)
          /\ \E k \in Keys :
                /\ k # token_data[t].authority
                /\ balance[token_data[t].mint][k] = Pow10(DECIMALS)

====
